---- MODULE Spec2Model ----
(***************************************************************************)
(* A model of the trading-card shop's persistence layer (src/db.py), its   *)
(* sample generator (src/gen_data.py) and its command-line front end       *)
(* (src/cli.py).                                                           *)
(*                                                                         *)
(* A Python str is a sequence of characters; a character is written as a  *)
(* one-token string.  Two characters outside ASCII are part of the        *)
(* alphabet because str.isdigit and int treat them differently from       *)
(* [0-9]:  "d2" is U+0662 ARABIC-INDIC DIGIT TWO (category Nd) and "s2"   *)
(* is U+00B2 SUPERSCRIPT TWO (category No, Numeric_Type=Digit).           *)
(*                                                                         *)
(* An optional argument is <<>> when it is None and <<v>> when it is v.   *)
(***************************************************************************)
EXTENDS Integers, Sequences, FiniteSets, TLC

VARIABLES
    dirExists,   \* the parent directory of the store file exists
    fileExists,  \* the store file exists
    schema,      \* the tables cards and employees exist
    cards,       \* the rows of table cards
    seq,         \* sqlite_sequence of cards: the largest id ever assigned
    employees,   \* the rows of table employees
    eseq,        \* sqlite_sequence of employees
    call,        \* the last call: its operation and its arguments
    conn,        \* what the last call did with its connection
    ret,         \* what the last call returned or raised
    closed,      \* the connection of the last call is closed
    exit,        \* the exit status of the last front-end command
    gen          \* a run of generate_cards or generate_employees: its locals

vars == <<dirExists, fileExists, schema, cards, seq, employees, eseq,
          call, conn, ret, closed, exit, gen>>

store == <<dirExists, fileExists, schema, cards, seq, employees, eseq>>

(***************************************************************************)
(* Bounds of the model.                                                    *)
(***************************************************************************)
\* the largest id AUTOINCREMENT hands out before the model stops inserting
MaxId == 4
\* the number of rows the model lets a table hold
MaxRows == 2
\* the number of rows generate_cards is asked for by init_db (25 in the code)
CardSeedCount == 2
\* the number of rows generate_employees is asked for by init_db (4 in the code)
EmpSeedCount == 1
\* the largest count a run of a generator is followed for
MaxCount == 3

(***************************************************************************)
(* Characters and strings.                                                 *)
(***************************************************************************)
DigitChars == <<"0", "1", "2", "3", "4", "5", "6", "7", "8", "9">>

AsciiDigits == {DigitChars[i] : i \in 1..10}

\* characters of category Nd outside ASCII: str.isdigit holds, int accepts
UnicodeDecimalDigits == {"d2"}

\* characters with Numeric_Type=Digit that are no decimals: str.isdigit
\* holds, int raises ValueError
UnicodeOtherDigits == {"s2"}

Letters == {"a", "b", "T"}

Chars == {"1", "2", "3"} \cup UnicodeDecimalDigits \cup UnicodeOtherDigits \cup Letters

DigitValue(c) ==
    IF c = "d2" THEN 2 ELSE CHOOSE v \in 0..9 : DigitChars[v + 1] = c

\* str.isdigit(): non-empty and every character is a digit character
isdigit(s) ==
    /\ Len(s) > 0
    /\ \A i \in 1..Len(s) :
          s[i] \in AsciiDigits \cup UnicodeDecimalDigits \cup UnicodeOtherDigits

RECURSIVE DecimalValue(_)
DecimalValue(s) ==
    IF Len(s) = 0 THEN 0
    ELSE 10 * DecimalValue(SubSeq(s, 1, Len(s) - 1)) + DigitValue(s[Len(s)])

\* int(s) for a string over Chars: the value, or ValueError when the string is
\* empty or a character is no decimal digit
int(s) ==
    IF /\ Len(s) > 0
       /\ \A i \in 1..Len(s) : s[i] \in AsciiDigits \cup UnicodeDecimalDigits
    THEN [exc |-> "none", val |-> DecimalValue(s)]
    ELSE [exc |-> "ValueError", val |-> 0]

\* str(n) for n >= 0
RECURSIVE str(_)
str(n) ==
    IF n < 10 THEN <<DigitChars[n + 1]>>
    ELSE str(n \div 10) \o <<DigitChars[(n % 10) + 1]>>

(***************************************************************************)
(* Values the calls are made with.                                         *)
(***************************************************************************)
None == <<>>

Some(v) == <<v>>

Thunderfury ==
    [name |-> <<"T">>, set_name |-> "Dark Portal", rarity |-> "Legendary",
     price_cents |-> 100000, stock |-> 1]

Names == {<<"T">>, <<"a">>, <<"2">>}

SET_NAMES == {"Embers Rising"}

SetNames == SET_NAMES

Rarities == {"Common"}

\* the values add_card is called with
AddPrices == {-1, 150}

AddStocks == {-1, 1}

\* the values update_card is called with
UpdateNames == {<<"a">>}

UpdateSetNames == SET_NAMES

UpdateRarities == {"Common"}

UpdatePrices == {-1, 500}

UpdateStocks == {-1, 0}

Identifiers ==
    {<<>>, <<"1">>, <<"2">>, <<"a">>, <<"d2">>, <<"s2">>}

FIRST_NAMES == {"Ava"}

LAST_NAMES == {"Smith"}

CITIES == {"Monroe"}

(***************************************************************************)
(* The tables and the statements the accessors execute.                    *)
(***************************************************************************)
Max(a, b) == IF a >= b THEN a ELSE b

Ids(rows) == {r.id : r \in rows}

MaxRowId(rows) == IF rows = {} THEN 0 ELSE CHOOSE m \in Ids(rows) : \A i \in Ids(rows) : i <= m

\* a variant whose CHECK on stock is missing
CheckOk_PriceOnly(price_cents, stock) == price_cents >= 0

\* CHECK(price_cents >= 0) and CHECK(stock >= 0)
CheckOk(price_cents, stock) == price_cents >= 0 /\ stock >= 0

\* a variant without the UNIQUE constraint on name
UniqueOk_Off(rows, self, name) == TRUE

\* name TEXT NOT NULL UNIQUE, for the row with id `self` taking `name`
UniqueOk(rows, self, name) == \A r \in rows : r.id # self => r.name # name

\* a variant that numbers a new row by the count of rows
InsertCard_IdFromCount(rows, sq, v) ==
    IF ~CheckOk(v.price_cents, v.stock) \/ ~UniqueOk(rows, 0, v.name)
    THEN [exc |-> "IntegrityError", rows |-> rows, seq |-> sq, lastrowid |-> 0]
    ELSE LET id == Cardinality(rows) + 1
         IN  [exc |-> "none",
              rows |-> rows \cup {[id |-> id, name |-> v.name, set_name |-> v.set_name,
                                   rarity |-> v.rarity, price_cents |-> v.price_cents,
                                   stock |-> v.stock]},
              seq |-> id, lastrowid |-> id]

\* INSERT INTO cards(...) VALUES (?,?,?,?,?) with id INTEGER PRIMARY KEY
\* AUTOINCREMENT: the id is one more than the largest ever assigned
InsertCard(rows, sq, v) ==
    IF ~CheckOk(v.price_cents, v.stock) \/ ~UniqueOk(rows, 0, v.name)
    THEN [exc |-> "IntegrityError", rows |-> rows, seq |-> sq, lastrowid |-> 0]
    ELSE LET id == Max(sq, MaxRowId(rows)) + 1
         IN  [exc |-> "none",
              rows |-> rows \cup {[id |-> id, name |-> v.name, set_name |-> v.set_name,
                                   rarity |-> v.rarity, price_cents |-> v.price_cents,
                                   stock |-> v.stock]},
              seq |-> id, lastrowid |-> id]

\* executemany of the INSERT over a list of rows
RECURSIVE InsertCards(_, _, _)
InsertCards(rows, sq, vs) ==
    IF vs = <<>> THEN [exc |-> "none", rows |-> rows, seq |-> sq, lastrowid |-> sq]
    ELSE LET one == InsertCard(rows, sq, Head(vs))
         IN  IF one.exc # "none" THEN one ELSE InsertCards(one.rows, one.seq, Tail(vs))

InsertEmp(rows, sq, v) ==
    LET id == Max(sq, MaxRowId(rows)) + 1
    IN  [rows |-> rows \cup {[id |-> id, first_name |-> v.first_name,
                              last_name |-> v.last_name, city |-> v.city]},
         seq |-> id, lastrowid |-> id]

RECURSIVE InsertEmps(_, _, _)
InsertEmps(rows, sq, vs) ==
    IF vs = <<>> THEN [rows |-> rows, seq |-> sq, lastrowid |-> sq]
    ELSE LET one == InsertEmp(rows, sq, Head(vs))
         IN  InsertEmps(one.rows, one.seq, Tail(vs))

\* the orders in which a SELECT may return a set of rows
Orders(rows) ==
    {s \in [1..Cardinality(rows) -> rows] : \A i, j \in DOMAIN s : i # j => s[i] # s[j]}

\* a variant: ... ORDER BY id DESC
OrderById_Descending(rows) ==
    CHOOSE s \in Orders(rows) : \A i, j \in DOMAIN s : i < j => s[i].id > s[j].id

\* ... ORDER BY id
OrderById(rows) ==
    CHOOSE s \in Orders(rows) : \A i, j \in DOMAIN s : i < j => s[i].id < s[j].id

\* the rows a WHERE id = ? or WHERE name = ? selects
WhereId(rows, id) == {r \in rows : r.id = id}

WhereName(rows, name) == {r \in rows : r.name = name}

\* a variant that also writes a supplied rarity into set_name
SetFields_RarityIntoSetName(r, u) ==
    [id |-> r.id,
     name |-> IF u.name = None THEN r.name ELSE u.name[1],
     set_name |-> IF u.rarity # None THEN u.rarity[1]
                  ELSE IF u.set_name = None THEN r.set_name ELSE u.set_name[1],
     rarity |-> IF u.rarity = None THEN r.rarity ELSE u.rarity[1],
     price_cents |-> IF u.price_cents = None THEN r.price_cents ELSE u.price_cents[1],
     stock |-> IF u.stock = None THEN r.stock ELSE u.stock[1]]

\* UPDATE cards SET <the supplied fields> applied to one row
SetFields(r, u) ==
    [id |-> r.id,
     name |-> IF u.name = None THEN r.name ELSE u.name[1],
     set_name |-> IF u.set_name = None THEN r.set_name ELSE u.set_name[1],
     rarity |-> IF u.rarity = None THEN r.rarity ELSE u.rarity[1],
     price_cents |-> IF u.price_cents = None THEN r.price_cents ELSE u.price_cents[1],
     stock |-> IF u.stock = None THEN r.stock ELSE u.stock[1]]

\* UPDATE cards SET ... WHERE ...: `matched` are the rows the WHERE selects
UpdateCards(rows, matched, u) ==
    LET new == {SetFields(r, u) : r \in matched}
        out == (rows \ matched) \cup new
    IN  IF \/ \E r \in new : ~CheckOk(r.price_cents, r.stock)
           \/ \E r \in new : ~UniqueOk(out, r.id, r.name)
        THEN [exc |-> "IntegrityError", rows |-> rows, rowcount |-> 0]
        ELSE [exc |-> "none", rows |-> out, rowcount |-> Cardinality(matched)]

SetEmpFields(r, u) ==
    [id |-> r.id,
     first_name |-> IF u.first_name = None THEN r.first_name ELSE u.first_name[1],
     last_name |-> IF u.last_name = None THEN r.last_name ELSE u.last_name[1],
     city |-> IF u.city = None THEN r.city ELSE u.city[1]]

\* a variant: ... WHERE price_cents > ?
WherePriceAtLeast_Strict(rows, threshold) == {r \in rows : r.price_cents > threshold}

\* SELECT ... FROM cards WHERE price_cents >= ?
WherePriceAtLeast(rows, threshold) == {r \in rows : r.price_cents >= threshold}

\* the bound parameter of test1's query
Test1Threshold == 500

(***************************************************************************)
(* The sample generator, as the set of lists its random choices can yield. *)
(***************************************************************************)
ADJECTIVE_NOUN_SUFFIX == {<<"a">>}

\* _weighted_rarity and _price_for_rarity: a rarity and a price of its band
RarityAndPrice == {<<"Common", 150>>}

GeneratedCardRows ==
    {[name |-> n, set_name |-> s, rarity |-> rp[1], price_cents |-> rp[2], stock |-> k] :
        n \in ADJECTIVE_NOUN_SUFFIX, s \in SET_NAMES, rp \in RarityAndPrice, k \in {0, 1}}

\* no key of the list is in names_seen (seen_full_names) twice
NoRepeat(keys) ==
    \A i, j \in 1..Len(keys) : i # j => keys[i] # keys[j]

SeqsUpTo(S, n) == UNION {[1..k -> S] : k \in 0..n}

\* generate_cards(count): the fixed first row, then rows of unseen names until
\* the list holds count rows or the attempts are used up; the first attempt
\* always finds an unseen name
generate_cards(count) ==
    {<<Thunderfury>> \o rest :
        rest \in {l \in SeqsUpTo(GeneratedCardRows, Max(count - 1, 0)) :
                    /\ NoRepeat([i \in 1..Len(l) |-> l[i].name])
                    /\ count > 1 => Len(l) >= 1}}

GeneratedEmpRows ==
    {[first_name |-> f, last_name |-> l, city |-> c] :
        f \in FIRST_NAMES, l \in LAST_NAMES, c \in CITIES}

generate_employees(count) ==
    {l \in SeqsUpTo(GeneratedEmpRows, Max(count, 0)) :
        /\ NoRepeat([i \in 1..Len(l) |-> <<l[i].first_name, l[i].last_name>>])
        /\ count > 0 => Len(l) >= 1}

(***************************************************************************)
(* The state.                                                              *)
(***************************************************************************)
NoArgs ==
    [op |-> "none", identifier |-> None, name |-> None, set_name |-> None,
     rarity |-> None, price_cents |-> None, stock |-> None,
     first_name |-> None, last_name |-> None, city |-> None]

\* the WHERE clause of a statement: the column compared, and the id or the
\* name bound to its parameter
NoWhere == [col |-> "none", id |-> 0, name |-> <<>>]

ById(id) == [col |-> "id", id |-> id, name |-> <<>>]

ByName(name) == [col |-> "name", id |-> 0, name |-> name]

\* a call's connection: whether one was opened, the statements executed on
\* it, the WHERE clause of the last one, and how the with block left it
NoConn == [opened |-> FALSE, stmts |-> 0, where |-> NoWhere, end |-> "none"]

Conn(stmts, where, end) == [opened |-> TRUE, stmts |-> stmts, where |-> where, end |-> end]

\* a call's outcome: the exception it raised ("none": it returned), the
\* integer it returned (0 when it returns none) and the rows it returned
Returned(n, rows) == [exc |-> "none", n |-> n, rows |-> rows]

Raised(exc) == [exc |-> exc, n |-> 0, rows |-> <<>>]

\* no generator is running
NoRun ==
    [fn |-> "none", count |-> 0, out |-> <<>>, names_seen |-> {}, attempts |-> 0,
     pc |-> "idle"]

Init ==
    /\ dirExists = FALSE
    /\ fileExists = FALSE
    /\ schema = FALSE
    /\ cards = {}
    /\ seq = 0
    /\ employees = {}
    /\ eseq = 0
    /\ call = NoArgs
    /\ conn = NoConn
    /\ ret = Returned(0, <<>>)
    /\ closed = FALSE
    /\ exit = 0
    /\ gen = NoRun

\* get_connection: makedirs(dirpath, exist_ok=True), then sqlite3.connect
get_connection ==
    /\ dirExists' = TRUE
    /\ fileExists' = TRUE

\* a statement on a store whose tables were never created
NoSuchTable(where) ==
    /\ ~schema
    /\ get_connection
    /\ UNCHANGED <<schema, cards, seq, employees, eseq>>
    /\ conn' = Conn(1, where, "rollback")
    /\ ret' = Raised("OperationalError")

(***************************************************************************)
(* The accessors of src/db.py.  Each is the whole call: the connection,    *)
(* the statement, the commit and the value returned or the error raised.   *)
(***************************************************************************)
\* the caller is between two calls: the last call's result is dropped
Idle == call = NoArgs

\* the caller drops what the last call returned or raised, and the call's
\* connection object with it
drop_result ==
    /\ ~Idle
    /\ call' = NoArgs
    /\ conn' = NoConn
    /\ ret' = Returned(0, <<>>)
    /\ closed' = FALSE
    /\ UNCHANGED <<store, exit, gen>>

\* No accessor calls conn.close(), and the with block of a sqlite3 connection
\* commits or rolls back without closing it: the connection is closed when the
\* interpreter finalizes the object.  When the accessor has returned that is
\* at once under reference counting and later under another collector; when
\* it has raised, the traceback holds the frame and the connection in it.
Finalized ==
    closed' \in IF conn'.opened /\ ret'.exc = "none" THEN BOOLEAN ELSE {FALSE}

\* a variant that seeds whatever the table holds
SeedNeeded_Always(rows) == TRUE

\* SELECT COUNT(*) FROM <table>; if count == 0
SeedNeeded(rows) == Cardinality(rows) = 0

init_db ==
    \E cs \in generate_cards(CardSeedCount), es \in generate_employees(EmpSeedCount) :
        LET seedCards == SeedNeeded(cards)
            seedEmps == SeedNeeded(employees)
            c == IF seedCards THEN InsertCards(cards, seq, cs)
                 ELSE [exc |-> "none", rows |-> cards, seq |-> seq, lastrowid |-> seq]
            e == IF seedEmps THEN InsertEmps(employees, eseq, es)
                 ELSE [rows |-> employees, seq |-> eseq, lastrowid |-> eseq]
        IN  /\ c.seq <= MaxId
            /\ e.seq <= MaxId
            /\ Cardinality(c.rows) <= MaxRows
            /\ get_connection
            /\ schema' = TRUE
            /\ call' = [NoArgs EXCEPT !.op = "init_db"]
            /\ IF c.exc # "none"
               THEN \* executemany raised: the with block rolls back and the
                    \* employees are not reached; executescript had committed
                    /\ UNCHANGED <<cards, seq, employees, eseq>>
                    /\ conn' = Conn(3, NoWhere, "rollback")
                    /\ ret' = Raised(c.exc)
               ELSE /\ cards' = c.rows
                    /\ seq' = c.seq
                    /\ employees' = e.rows
                    /\ eseq' = e.seq
                    /\ conn' = Conn(3 + (IF seedCards THEN 1 ELSE 0)
                                      + (IF seedEmps THEN 1 ELSE 0), NoWhere, "commit")
                    /\ ret' = Returned(0, <<>>)

\* stock: int = 0
DefaultStock == 0

add_card(name, set_name, rarity, price_cents, stock) ==
    LET v == [name |-> name, set_name |-> set_name, rarity |-> rarity,
              price_cents |-> price_cents,
              stock |-> IF stock = None THEN DefaultStock ELSE stock[1]]
        r == InsertCard(cards, seq, v)
    IN  /\ call' = [NoArgs EXCEPT !.op = "add_card", !.name = Some(name),
                                  !.set_name = Some(set_name), !.rarity = Some(rarity),
                                  !.price_cents = Some(price_cents), !.stock = stock]
        /\ \/ NoSuchTable(NoWhere)
           \/ /\ schema
              /\ r.exc = "none" => r.lastrowid <= MaxId /\ Cardinality(cards) < MaxRows
              /\ get_connection
              /\ cards' = r.rows
              /\ seq' = r.seq
              /\ UNCHANGED <<schema, employees, eseq>>
              /\ conn' = Conn(1, NoWhere, IF r.exc = "none" THEN "commit" ELSE "rollback")
              /\ ret' = IF r.exc = "none" THEN Returned(r.lastrowid, <<>>) ELSE Raised(r.exc)

list_cards ==
    /\ call' = [NoArgs EXCEPT !.op = "list_cards"]
    /\ \/ NoSuchTable(NoWhere)
       \/ /\ schema
          /\ get_connection
          /\ UNCHANGED <<schema, cards, seq, employees, eseq>>
          /\ conn' = Conn(1, NoWhere, "commit")
          /\ ret' = Returned(0, OrderById(cards))

\* get_card's if identifier.isdigit(): WHERE id = int(identifier), else WHERE name
GetCardWhere(rows, identifier) ==
    IF isdigit(identifier)
    THEN IF int(identifier).exc # "none"
         THEN [exc |-> int(identifier).exc, rows |-> {}, where |-> NoWhere]
         ELSE [exc |-> "none", rows |-> WhereId(rows, int(identifier).val),
               where |-> ById(int(identifier).val)]
    ELSE [exc |-> "none", rows |-> WhereName(rows, identifier), where |-> ByName(identifier)]

\* cursor.fetchone(): the first row, or the absent value
FetchOne(rows) == IF rows = {} THEN {<<>>} ELSE {<<r>> : r \in rows}

\* what get_card can return or raise on a store that holds `rows`
GetCardReturns(rows, identifier) ==
    IF GetCardWhere(rows, identifier).exc # "none"
    THEN {Raised(GetCardWhere(rows, identifier).exc)}
    ELSE {Returned(0, one) : one \in FetchOne(GetCardWhere(rows, identifier).rows)}

get_card(identifier) ==
    LET w == GetCardWhere(cards, identifier)
    IN  /\ call' = [NoArgs EXCEPT !.op = "get_card", !.identifier = Some(identifier)]
        /\ IF w.exc # "none"
           THEN /\ get_connection
                /\ UNCHANGED <<schema, cards, seq, employees, eseq>>
                /\ conn' = Conn(0, NoWhere, "rollback")
                /\ ret' \in GetCardReturns(cards, identifier)
           ELSE \/ NoSuchTable(w.where)
                \/ /\ schema
                   /\ get_connection
                   /\ UNCHANGED <<schema, cards, seq, employees, eseq>>
                   /\ conn' = Conn(1, w.where, "commit")
                   /\ ret' \in GetCardReturns(cards, identifier)

\* the fields update_card was given, in the order it appends them
Fields(u) ==
    SelectSeq(<<"name", "set_name", "rarity", "price_cents", "stock">>,
              LAMBDA f : u[f] # None)

\* update_card's if identifier.isdigit(): WHERE id = int(identifier), else WHERE name
UpdateCardWhere(rows, identifier) ==
    IF isdigit(identifier)
    THEN IF int(identifier).exc # "none"
         THEN [exc |-> int(identifier).exc, rows |-> {}, where |-> NoWhere]
         ELSE [exc |-> "none", rows |-> WhereId(rows, int(identifier).val),
               where |-> ById(int(identifier).val)]
    ELSE [exc |-> "none", rows |-> WhereName(rows, identifier), where |-> ByName(identifier)]

\* a variant without the early return
NothingToUpdate_Never(fields) == FALSE

\* if not fields: nothing to update
NothingToUpdate(fields) == fields = <<>>

update_card(identifier, u) ==
    LET w == UpdateCardWhere(cards, identifier)
        r == UpdateCards(cards, w.rows, u)
    IN  /\ call' = [NoArgs EXCEPT !.op = "update_card", !.identifier = Some(identifier),
                                  !.name = u.name, !.set_name = u.set_name,
                                  !.rarity = u.rarity, !.price_cents = u.price_cents,
                                  !.stock = u.stock]
        /\ IF NothingToUpdate(Fields(u))
           THEN /\ UNCHANGED store
                /\ conn' = NoConn
                /\ ret' = Returned(0, <<>>)
           ELSE IF w.exc # "none"
           THEN /\ get_connection
                /\ UNCHANGED <<schema, cards, seq, employees, eseq>>
                /\ conn' = Conn(0, NoWhere, "rollback")
                /\ ret' = Raised(w.exc)
           ELSE \/ NoSuchTable(w.where)
                \/ /\ schema
                   /\ get_connection
                   /\ cards' = r.rows
                   /\ UNCHANGED <<schema, seq, employees, eseq>>
                   /\ conn' = Conn(1, w.where, IF r.exc = "none" THEN "commit" ELSE "rollback")
                   /\ ret' = IF r.exc = "none" THEN Returned(r.rowcount, <<>>)
                             ELSE Raised(r.exc)

\* a variant that always deletes by name
DeleteCardWhere_ByName(rows, identifier) ==
    [exc |-> "none", rows |-> WhereName(rows, identifier), where |-> ByName(identifier)]

\* delete_card's if identifier.isdigit(): WHERE id = int(identifier), else WHERE name
DeleteCardWhere(rows, identifier) ==
    IF isdigit(identifier)
    THEN IF int(identifier).exc # "none"
         THEN [exc |-> int(identifier).exc, rows |-> {}, where |-> NoWhere]
         ELSE [exc |-> "none", rows |-> WhereId(rows, int(identifier).val),
               where |-> ById(int(identifier).val)]
    ELSE [exc |-> "none", rows |-> WhereName(rows, identifier), where |-> ByName(identifier)]

delete_card(identifier) ==
    LET w == DeleteCardWhere(cards, identifier)
    IN  /\ call' = [NoArgs EXCEPT !.op = "delete_card", !.identifier = Some(identifier)]
        /\ IF w.exc # "none"
           THEN /\ get_connection
                /\ UNCHANGED <<schema, cards, seq, employees, eseq>>
                /\ conn' = Conn(0, NoWhere, "rollback")
                /\ ret' = Raised(w.exc)
           ELSE \/ NoSuchTable(w.where)
                \/ /\ schema
                   /\ get_connection
                   /\ cards' = cards \ w.rows
                   /\ UNCHANGED <<schema, seq, employees, eseq>>
                   /\ conn' = Conn(1, w.where, "commit")
                   /\ ret' = Returned(Cardinality(w.rows), <<>>)

\* test1 has no ORDER BY: the rows come in an order SQLite chooses
test1 ==
    /\ call' = [NoArgs EXCEPT !.op = "test1"]
    /\ \/ NoSuchTable(NoWhere)
       \/ /\ schema
          /\ get_connection
          /\ UNCHANGED <<schema, cards, seq, employees, eseq>>
          /\ conn' = Conn(1, NoWhere, "commit")
          /\ \E rows \in Orders(WherePriceAtLeast(cards, Test1Threshold)) :
                ret' = Returned(0, rows)

add_emp(first_name, last_name, city) ==
    LET r == InsertEmp(employees, eseq,
                       [first_name |-> first_name, last_name |-> last_name, city |-> city])
    IN  /\ call' = [NoArgs EXCEPT !.op = "add_emp", !.first_name = Some(first_name),
                                  !.last_name = Some(last_name), !.city = Some(city)]
        /\ \/ NoSuchTable(NoWhere)
           \/ /\ schema
              /\ r.lastrowid <= MaxId /\ Cardinality(employees) < MaxRows
              /\ get_connection
              /\ employees' = r.rows
              /\ eseq' = r.seq
              /\ UNCHANGED <<schema, cards, seq>>
              /\ conn' = Conn(1, NoWhere, "commit")
              /\ ret' = Returned(r.lastrowid, <<>>)

list_emp ==
    /\ call' = [NoArgs EXCEPT !.op = "list_emp"]
    /\ \/ NoSuchTable(NoWhere)
       \/ /\ schema
          /\ get_connection
          /\ UNCHANGED <<schema, cards, seq, employees, eseq>>
          /\ conn' = Conn(1, NoWhere, "commit")
          /\ ret' = Returned(0, OrderById(employees))

\* WHERE id = int(identifier)
EmpWhere(rows, identifier) ==
    IF int(identifier).exc # "none"
    THEN [exc |-> int(identifier).exc, rows |-> {}, where |-> NoWhere]
    ELSE [exc |-> "none", rows |-> WhereId(rows, int(identifier).val),
          where |-> ById(int(identifier).val)]

get_emp(identifier) ==
    LET w == EmpWhere(employees, identifier)
    IN  /\ call' = [NoArgs EXCEPT !.op = "get_emp", !.identifier = Some(identifier)]
        /\ IF w.exc # "none"
           THEN /\ get_connection
                /\ UNCHANGED <<schema, cards, seq, employees, eseq>>
                /\ conn' = Conn(0, NoWhere, "rollback")
                /\ ret' = Raised(w.exc)
           ELSE \/ NoSuchTable(w.where)
                \/ /\ schema
                   /\ get_connection
                   /\ UNCHANGED <<schema, cards, seq, employees, eseq>>
                   /\ conn' = Conn(1, w.where, "commit")
                   /\ \E one \in FetchOne(w.rows) : ret' = Returned(0, one)

\* the fields update_emp was given, in the order it appends them
EmpFields(u) ==
    SelectSeq(<<"first_name", "last_name", "city">>, LAMBDA f : u[f] # None)

update_emp(identifier, u) ==
    LET w == EmpWhere(employees, identifier)
    IN  /\ call' = [NoArgs EXCEPT !.op = "update_emp", !.identifier = Some(identifier),
                                  !.first_name = u.first_name, !.last_name = u.last_name,
                                  !.city = u.city]
        /\ IF NothingToUpdate(EmpFields(u))
           THEN /\ UNCHANGED store
                /\ conn' = NoConn
                /\ ret' = Returned(0, <<>>)
           ELSE IF w.exc # "none"
           THEN /\ get_connection
                /\ UNCHANGED <<schema, cards, seq, employees, eseq>>
                /\ conn' = Conn(0, NoWhere, "rollback")
                /\ ret' = Raised(w.exc)
           ELSE \/ NoSuchTable(w.where)
                \/ /\ schema
                   /\ get_connection
                   /\ employees' = (employees \ w.rows) \cup {SetEmpFields(r, u) : r \in w.rows}
                   /\ UNCHANGED <<schema, cards, seq, eseq>>
                   /\ conn' = Conn(1, w.where, "commit")
                   /\ ret' = Returned(Cardinality(w.rows), <<>>)

delete_emp(identifier) ==
    LET w == EmpWhere(employees, identifier)
    IN  /\ call' = [NoArgs EXCEPT !.op = "delete_emp", !.identifier = Some(identifier)]
        /\ IF w.exc # "none"
           THEN /\ get_connection
                /\ UNCHANGED <<schema, cards, seq, employees, eseq>>
                /\ conn' = Conn(0, NoWhere, "rollback")
                /\ ret' = Raised(w.exc)
           ELSE \/ NoSuchTable(w.where)
                \/ /\ schema
                   /\ get_connection
                   /\ employees' = employees \ w.rows
                   /\ UNCHANGED <<schema, cards, seq, eseq>>
                   /\ conn' = Conn(1, w.where, "commit")
                   /\ ret' = Returned(Cardinality(w.rows), <<>>)

(***************************************************************************)
(* The calls a caller of src/db.py can make on the cards.                  *)
(***************************************************************************)
Optional(S) == {None} \cup {Some(v) : v \in S}

CardUpdates ==
    [name : Optional(UpdateNames), set_name : Optional(UpdateSetNames),
     rarity : Optional(UpdateRarities), price_cents : Optional(UpdatePrices),
     stock : Optional(UpdateStocks)]

Next ==
    \/ drop_result
    \/ Idle /\ init_db /\ Finalized /\ UNCHANGED <<exit, gen>>
    \/ \E n \in Names, s \in SetNames, r \in Rarities, p \in AddPrices,
          k \in Optional(AddStocks) :
          Idle /\ add_card(n, s, r, p, k) /\ Finalized /\ UNCHANGED <<exit, gen>>
    \/ Idle /\ list_cards /\ Finalized /\ UNCHANGED <<exit, gen>>
    \/ \E i \in Identifiers : Idle /\ get_card(i) /\ Finalized /\ UNCHANGED <<exit, gen>>
    \/ \E i \in Identifiers, u \in CardUpdates : Idle /\ update_card(i, u) /\ Finalized /\ UNCHANGED <<exit, gen>>
    \/ \E i \in Identifiers : Idle /\ delete_card(i) /\ Finalized /\ UNCHANGED <<exit, gen>>
    \/ Idle /\ test1 /\ Finalized /\ UNCHANGED <<exit, gen>>

Spec == Init /\ [][Next]_vars

(***************************************************************************)
(* The front end, src/cli.py: main runs one command.  The exit status is   *)
(* what main returns, and 1 when an error leaves main (the interpreter's   *)
(* status for an uncaught exception).  The command test_cli, which runs    *)
(* the installed program as subprocesses, is not modelled.                 *)
(***************************************************************************)
\* the status of a command that returns 0 once its accessor has returned
Status(r) == IF r.exc # "none" THEN 1 ELSE 0

\* a variant of the status of get and get_emp that overlooks "Not found"
NotFoundStatus_Overlooked(r) == Status(r)

\* get, get_emp: if not r: print("Not found"); return 1
NotFoundStatus(r) == IF r.exc # "none" THEN 1 ELSE IF r.rows = <<>> THEN 1 ELSE 0

\* init-db: list_cards inside try/except (it can only create the directory
\* and the file, as init_db does), then init_db
main_init_db == init_db /\ exit' = Status(ret')

main_list_c == list_cards /\ exit' = Status(ret')

main_list_e == list_emp /\ exit' = Status(ret')

main_get(identifier) == get_card(identifier) /\ exit' = NotFoundStatus(ret')

main_get_emp(identifier) == get_emp(identifier) /\ exit' = NotFoundStatus(ret')

\* --stock has default=0: add_card is always given a stock
main_add(name, set_name, rarity, price_cents, stock) ==
    add_card(name, set_name, rarity, price_cents, Some(stock)) /\ exit' = Status(ret')

\* the positional argument id is parsed and not used
main_add_emp(id, first_name, last_name, city) ==
    add_emp(first_name, last_name, city) /\ exit' = Status(ret')

main_update(identifier, u) == update_card(identifier, u) /\ exit' = Status(ret')

main_update_e(identifier, u) == update_emp(identifier, u) /\ exit' = Status(ret')

main_delete(identifier) == delete_card(identifier) /\ exit' = Status(ret')

main_delete_e(identifier) == delete_emp(identifier) /\ exit' = Status(ret')

main_test1 == test1 /\ exit' = Status(ret')

\* db.test2 does not exist: AttributeError, before any connection
main_test2 ==
    /\ call' = [NoArgs EXCEPT !.op = "test2"]
    /\ UNCHANGED store
    /\ conn' = NoConn
    /\ ret' = Raised("AttributeError")
    /\ exit' = Status(ret')

\* the arguments the commands are run with
CliIdentifiers == {<<"1">>, <<"2">>, <<"a">>, <<"s2">>}

CliCardUpdates ==
    [name : Optional(UpdateNames), set_name : {None}, rarity : {None},
     price_cents : Optional({500}), stock : Optional({-1})]

EmpUpdates ==
    [first_name : Optional(FIRST_NAMES), last_name : Optional(LAST_NAMES),
     city : Optional({"Houma"})]

CliNext ==
    \/ drop_result
    \/ Idle /\ main_init_db /\ Finalized /\ UNCHANGED gen
    \/ Idle /\ main_list_c /\ Finalized /\ UNCHANGED gen
    \/ Idle /\ main_list_e /\ Finalized /\ UNCHANGED gen
    \/ \E i \in CliIdentifiers : Idle /\ main_get(i) /\ Finalized /\ UNCHANGED gen
    \/ \E i \in CliIdentifiers : Idle /\ main_get_emp(i) /\ Finalized /\ UNCHANGED gen
    \/ \E n \in Names, k \in {0, 1} : Idle /\ main_add(n, "Embers Rising", "Common", 150, k) /\ Finalized /\ UNCHANGED gen
    \/ \E f \in FIRST_NAMES, l \in LAST_NAMES, c \in CITIES :
          Idle /\ main_add_emp(<<"1">>, f, l, c) /\ Finalized /\ UNCHANGED gen
    \/ \E i \in CliIdentifiers, u \in CliCardUpdates : Idle /\ main_update(i, u) /\ Finalized /\ UNCHANGED gen
    \/ \E i \in CliIdentifiers, u \in EmpUpdates : Idle /\ main_update_e(i, u) /\ Finalized /\ UNCHANGED gen
    \/ \E i \in CliIdentifiers : Idle /\ main_delete(i) /\ Finalized /\ UNCHANGED gen
    \/ \E i \in CliIdentifiers : Idle /\ main_delete_e(i) /\ Finalized /\ UNCHANGED gen
    \/ Idle /\ main_test1 /\ Finalized /\ UNCHANGED gen
    \/ Idle /\ main_test2 /\ Finalized /\ UNCHANGED gen

SpecCli == Init /\ [][CliNext]_vars

(***************************************************************************)
(* The generators of src/gen_data.py, statement by statement: `gen` holds  *)
(* the locals of one run (names_seen is seen_full_names in                 *)
(* generate_employees).  The random choices are drawn from the pools of    *)
(* GeneratedCardRows and GeneratedEmpRows.                                 *)
(***************************************************************************)
\* attempts < count * 20
AttemptsPerRow == 20

\* rng, names_seen, out with the fixed first row, attempts = 0
generate_cards_enter(count) ==
    /\ gen.pc = "idle"
    /\ gen' = [fn |-> "generate_cards", count |-> count, out |-> <<Thunderfury>>,
               names_seen |-> {}, attempts |-> 0, pc |-> "loop"]
    /\ UNCHANGED <<store, call, conn, ret, closed, exit>>

\* rng, seen_full_names, out, attempts = 0
generate_employees_enter(count) ==
    /\ gen.pc = "idle"
    /\ gen' = [fn |-> "generate_employees", count |-> count, out |-> <<>>,
               names_seen |-> {}, attempts |-> 0, pc |-> "loop"]
    /\ UNCHANGED <<store, call, conn, ret, closed, exit>>

\* a variant without the cap on the attempts
LoopCondition_NoCap == Len(gen.out) < gen.count

\* while len(out) < count and attempts < count * 20
LoopCondition ==
    Len(gen.out) < gen.count /\ gen.attempts < gen.count * AttemptsPerRow

\* the key a row is remembered by: the name, or the (first, last) pair
SeenKey(row) ==
    IF gen.fn = "generate_cards" THEN row.name ELSE <<row.first_name, row.last_name>>

\* one pass of the loop body: count the attempt, draw a name, and either
\* continue on a name already seen or remember it and append the row
generate_loop ==
    /\ gen.pc = "loop"
    /\ LoopCondition
    /\ \E row \in IF gen.fn = "generate_cards" THEN GeneratedCardRows ELSE GeneratedEmpRows :
          gen' = IF SeenKey(row) \in gen.names_seen
                 THEN [gen EXCEPT !.attempts = @ + 1]
                 ELSE [gen EXCEPT !.attempts = @ + 1,
                                  !.names_seen = @ \cup {SeenKey(row)},
                                  !.out = Append(@, row)]
    /\ UNCHANGED <<store, call, conn, ret, closed, exit>>

\* return out
generate_return ==
    /\ gen.pc = "loop"
    /\ ~LoopCondition
    /\ gen' = [gen EXCEPT !.pc = "done"]
    /\ UNCHANGED <<store, call, conn, ret, closed, exit>>

\* the caller has taken the list
generate_taken ==
    /\ gen.pc = "done"
    /\ gen' = NoRun
    /\ UNCHANGED <<store, call, conn, ret, closed, exit>>

GenNext ==
    \/ \E count \in 0..MaxCount : generate_cards_enter(count)
    \/ \E count \in 0..MaxCount : generate_employees_enter(count)
    \/ generate_loop
    \/ generate_return
    \/ generate_taken

\* a run that has begun is carried on: the interpreter does not stop
SpecGen ==
    Init /\ [][GenNext]_vars /\ WF_vars(generate_loop) /\ WF_vars(generate_return)

(***************************************************************************)
(* The claims.                                                             *)
(***************************************************************************)
\* ^[0-9]+$
MatchesAsciiDigits(s) == Len(s) > 0 /\ \A i \in 1..Len(s) : s[i] \in AsciiDigits

\* the last call looked a card up by an identifier on a connection
LookedUp == call.op \in {"get_card", "update_card", "delete_card"} /\ conn.opened

\* C1: every identifier passed to get_card, update_card or delete_card is
\* resolved by primary key exactly when it matches ^[0-9]+$ (by the number its
\* digits denote) and otherwise by equality on the name column, and
\* classifying it never raises an error.
C1_IdentifierPolicy ==
    LookedUp =>
        LET i == call.identifier[1]
        IN  /\ ret.exc # "ValueError"
            /\ conn.where = IF MatchesAsciiDigits(i) THEN ById(DecimalValue(i)) ELSE ByName(i)

CardFields == {"name", "set_name", "rarity", "price_cents", "stock"}

\* the fields the last update_card call supplied
Supplied == {f \in CardFields : call[f] # None}

\* the rows an identifier addresses: by id when str.isdigit holds of it, by
\* name otherwise
Addressed(rows, identifier) ==
    IF isdigit(identifier)
    THEN {r \in rows : r.id = int(identifier).val}
    ELSE {r \in rows : r.name = identifier}

\* C2: a successful update_card with a non-empty set of fields returns 1 when
\* its identifier addresses a card, which then holds the supplied values in
\* exactly the supplied fields, with its id, its other fields, every other
\* card and every employee unchanged; it returns 0 and changes nothing when
\* the identifier addresses no row.
C2_UpdateFrame ==
    [][(call'.op = "update_card" /\ Supplied' # {} /\ ret'.exc = "none") =>
         LET target == Addressed(cards, call'.identifier[1])
         IN  /\ employees' = employees /\ eseq' = eseq /\ seq' = seq /\ schema' = schema
             /\ target = {} => ret'.n = 0 /\ cards' = cards
             /\ target # {} =>
                   /\ ret'.n = 1
                   /\ \E r \in cards, r2 \in cards' :
                         /\ target = {r}
                         /\ cards' \ {r2} = cards \ {r}
                         /\ r2.id = r.id
                         /\ \A f \in CardFields :
                               r2[f] = IF f \in Supplied' THEN call'[f][1] ELSE r[f]
      ]_vars

\* an update of two fields of one of two cards, with an employee on file
C2_Witness ==
    /\ call.op = "update_card" /\ ret.exc = "none" /\ ret.n = 1
    /\ Cardinality(Supplied) = 2
    /\ Cardinality(cards) = 2
    /\ employees # {}

\* the record a successful add_card call has inserted
Inserted ==
    [id |-> ret.n, name |-> call.name[1], set_name |-> call.set_name[1],
     rarity |-> call.rarity[1], price_cents |-> call.price_cents[1],
     stock |-> IF call.stock = None THEN 0 ELSE call.stock[1]]

\* C3: a successful add_card returns an id that no card of the store held, and
\* get_card(str(id)) right after it returns the inserted values, with stock 0
\* when stock was omitted; get_card(name) returns the same record when the
\* name is not all digits (as str.isdigit tells).
C3_AddThenGet ==
    [][(call'.op = "add_card" /\ ret'.exc = "none") =>
         /\ ret'.n \notin Ids(cards)
         /\ GetCardReturns(cards', str(ret'.n)) = {Returned(0, <<Inserted'>>)}
         /\ ~isdigit(call'.name[1]) =>
               GetCardReturns(cards', call'.name[1]) = {Returned(0, <<Inserted'>>)}
      ]_vars

\* a card added under a name with letters and without a stock, beside a card
\* that was there, after an earlier card was deleted
C3_Witness ==
    /\ call.op = "add_card" /\ ret.exc = "none"
    /\ call.stock = None
    /\ ~isdigit(call.name[1])
    /\ Cardinality(cards) = 2
    /\ ret.n = 3

NamesUnique == \A r1, r2 \in cards : r1.id # r2.id => r1.name # r2.name

\* the call c is an update_card that addresses a card of `rows` and would
\* give it the name of another card of `rows`
WouldDuplicate(rows, c) ==
    /\ c.op = "update_card"
    /\ c.name # None
    /\ \E r \in Addressed(rows, c.identifier[1]) :
          \E o \in rows : o.id # r.id /\ o.name = c.name[1]

\* C4: no two cards ever share a name; add_card under the name of a card of
\* the store, and update_card giving a card the name of another card, raise
\* the store's integrity error and leave the store as it was.
C4_UniqueNames ==
    /\ []NamesUnique
    /\ [][(\/ call'.op = "add_card" /\ call'.name[1] \in {r.name : r \in cards}
           \/ WouldDuplicate(cards, call'))
          => ret'.exc = "IntegrityError" /\ store' = store]_vars

\* a rename to the name of the other card, refused
C4_Witness ==
    /\ call.op = "update_card" /\ ret.exc = "IntegrityError"
    /\ call.name # None /\ call.price_cents = None /\ call.stock = None
    /\ Cardinality(cards) = 2

\* C5: every card has price_cents >= 0 and stock >= 0; add_card with a
\* negative price_cents or stock, and update_card supplying a negative
\* price_cents or stock for a card of the store, raise the store's integrity
\* error and leave the store as it was, the call's other fields included.
C5_NonNegative ==
    /\ [](\A r \in cards : r.price_cents >= 0 /\ r.stock >= 0)
    /\ [][(\/ /\ call'.op = "add_card"
              /\ schema
              /\ call'.price_cents[1] < 0 \/ Inserted'.stock < 0
           \/ /\ call'.op = "update_card"
              /\ Addressed(cards, call'.identifier[1]) # {}
              /\ \E f \in {"price_cents", "stock"} : call'[f] # None /\ call'[f][1] < 0)
          => ret'.exc = "IntegrityError" /\ store' = store]_vars

\* an update with a negative stock and a new set_name, refused
C5_Witness ==
    /\ call.op = "update_card" /\ ret.exc = "IntegrityError"
    /\ call.stock = Some(-1) /\ call.set_name # None
    /\ call.name = None /\ call.price_cents = None
    /\ cards # {}

\* C7: delete_card returns 0 and leaves the store unchanged when its
\* identifier addresses no card; when it addresses a card it returns 1,
\* removes that card and no other row, and get_card on the same identifier
\* right after it returns the absent value.
C7_Delete ==
    [][(call'.op = "delete_card" /\ ret'.exc = "none") =>
         LET target == Addressed(cards, call'.identifier[1])
         IN  /\ employees' = employees /\ eseq' = eseq /\ seq' = seq /\ schema' = schema
             /\ target = {} => ret'.n = 0 /\ cards' = cards
             /\ target # {} =>
                   /\ ret'.n = 1
                   /\ \E r \in cards : target = {r} /\ cards' = cards \ {r}
                   /\ GetCardReturns(cards', call'.identifier[1]) = {Returned(0, <<>>)}
      ]_vars

\* one of two cards deleted by its name
C7_Witness ==
    /\ call.op = "delete_card" /\ ret.exc = "none" /\ ret.n = 1
    /\ ~isdigit(call.identifier[1])
    /\ Cardinality(cards) = 1
    /\ employees # {}

Range(f) == {f[i] : i \in DOMAIN f}

Ascending(rows) == \A i, j \in DOMAIN rows : i < j => rows[i].id < rows[j].id

\* the thresholds the claim about the filter query is read at
Thresholds == {150, 500, 501}

\* C9 as it was claimed: for every threshold, the filter query returns the
\* cards with price_cents >= threshold, in ascending id order.
C9_AnyThresholdAscending ==
    (call.op = "test1" /\ ret.exc = "none") =>
        \A t \in Thresholds :
            /\ Range(ret.rows) = {r \in cards : r.price_cents >= t}
            /\ Len(ret.rows) = Cardinality(Range(ret.rows))
            /\ Ascending(ret.rows)

\* C9, amended: test1 takes no threshold; it returns the cards with
\* price_cents >= 500, a card priced 500 included, each once, in an order its
\* query does not fix.
C9_Test1 ==
    (call.op = "test1" /\ ret.exc = "none") =>
        /\ Range(ret.rows) = {r \in cards : r.price_cents >= 500}
        /\ Len(ret.rows) = Cardinality(Range(ret.rows))

\* test1 over a card priced 500 and a card priced 150
C9_Witness ==
    /\ call.op = "test1" /\ ret.exc = "none"
    /\ \E r \in cards : r.price_cents = 500
    /\ \E r \in cards : r.price_cents = 150
    /\ Len(ret.rows) = 1

\* C10: list_cards returns every card of the store once, in strictly
\* ascending id order.
C10_ListCards ==
    (call.op = "list_cards" /\ ret.exc = "none") =>
        /\ Range(ret.rows) = cards
        /\ Len(ret.rows) = Cardinality(cards)
        /\ Ascending(ret.rows)

\* list_cards over the first card and a card added after a deletion
C10_Witness ==
    /\ call.op = "list_cards" /\ ret.exc = "none"
    /\ Len(ret.rows) = 2
    /\ ret.rows[1].id = 1 /\ ret.rows[2].id = 3

EmpFieldNames == {"first_name", "last_name", "city"}

\* the last call was an update that supplied no field at all
NoFieldSupplied ==
    \/ call.op = "update_card" /\ Supplied = {}
    \/ call.op = "update_emp" /\ \A f \in EmpFieldNames : call[f] = None

\* C6: update_card and update_emp called with no field to change return 0
\* whatever the identifier and whatever the state of the store, without
\* opening a connection, creating the directory or the file, or executing a
\* statement.
C6_NoFieldsNoOp ==
    [][NoFieldSupplied' =>
         /\ ret' = Returned(0, <<>>)
         /\ store' = store
         /\ conn' = NoConn
      ]_vars

\* update_card without fields, under an identifier int() refuses, before the
\* store's directory and file exist
C6_Witness ==
    /\ call.op = "update_card" /\ Supplied = {}
    /\ call.identifier = Some(<<"s2">>)
    /\ ~dirExists /\ ~fileExists
    /\ ret = Returned(0, <<>>)

\* the commands that look a row up by an identifier, by the accessor they call
LookupOps ==
    {"get_card", "get_emp", "update_card", "update_emp", "delete_card", "delete_emp"}

\* the lookup of the last command matched no row
NoRowMatched ==
    \/ call.op \in {"get_card", "get_emp"} /\ ret.rows = <<>>
    \/ /\ call.op \in {"update_card", "update_emp", "delete_card", "delete_emp"}
       /\ ~NoFieldSupplied
       /\ ret.n = 0

\* C8 as it was claimed: a command whose accessor returned exits with a
\* non-zero status when it is a lookup (get, get_emp, update, update_e,
\* delete, delete_e) that matched no row, and with zero otherwise.
C8_NonZeroOnAnyNoMatch ==
    (call.op # "none" /\ ret.exc = "none") =>
        (exit # 0 <=> (call.op \in LookupOps /\ NoRowMatched))

\* C8, amended: a command exits with 1 when get or get_emp found no row or
\* when an error left main, and with 0 otherwise; update, update_e, delete
\* and delete_e exit with 0 whether or not a row matched.
C8_ExitStatus ==
    call.op # "none" =>
        exit = IF \/ ret.exc # "none"
                  \/ call.op \in {"get_card", "get_emp"} /\ ret.rows = <<>>
               THEN 1 ELSE 0

\* delete of an id no card has, with cards in the store, exiting with 0
C8_Witness ==
    /\ call.op = "delete_card" /\ ret.exc = "none" /\ ret.n = 0
    /\ call.identifier = Some(<<"2">>)
    /\ cards # {}
    /\ exit = 0

\* C11: init_db never raises, whatever the store holds and however often it is
\* called; it leaves a table that holds a row as it is, whatever the other
\* table holds; and on a store without tables it leaves a card with id 1 and
\* an employee with id 1.
C11_InitDb ==
    [][call'.op = "init_db" =>
         /\ ret'.exc = "none"
         /\ schema'
         /\ cards # {} => cards' = cards /\ seq' = seq
         /\ employees # {} => employees' = employees /\ eseq' = eseq
         /\ ~schema => 1 \in Ids(cards') /\ 1 \in Ids(employees')
      ]_vars

\* init_db on a store that kept its first card and had lost every employee:
\* the employees alone are seeded again
C11_Witness ==
    /\ call.op = "init_db" /\ ret.exc = "none"
    /\ conn.stmts = 4
    /\ 1 \in Ids(cards)
    /\ employees # {} /\ 1 \notin Ids(employees)

\* init_db on a store that had lost every card and kept an employee: the
\* cards alone are seeded again, under ids never used before
C11_CardsSeededAgain ==
    /\ call.op = "init_db" /\ ret.exc = "none"
    /\ conn.stmts = 4
    /\ 1 \in Ids(employees)
    /\ cards # {} /\ 1 \notin Ids(cards)

\* add, list, get, update and delete, for cards and for employees
AccessorOps ==
    {"add_card", "list_cards", "get_card", "update_card", "delete_card",
     "add_emp", "list_emp", "get_emp", "update_emp", "delete_emp"}

\* the last call was one of these accessors, an update with a field to change
AccessorCalled == call.op \in AccessorOps /\ ~NoFieldSupplied

\* C12: every accessor call (an update with at least one field) has opened a
\* connection of its own and, when it has returned or raised, that connection
\* is closed; a call that returned has executed exactly one statement on it
\* and committed.
C12_ConnectionLifecycle ==
    AccessorCalled =>
        /\ conn.opened
        /\ closed
        /\ ret.exc = "none" => conn.stmts = 1 /\ conn.end = "commit"

\* what of C12 the accessors do keep: a connection of its own each, and one
\* statement and a commit when the call returns
C12_OneStatementCommitted ==
    AccessorCalled =>
        /\ conn.opened
        /\ ret.exc = "none" => conn.stmts = 1 /\ conn.end = "commit"

\* the names of the rows of a finished run: card names, (first, last) pairs
OutKeys == [i \in 1..Len(gen.out) |-> SeenKey(gen.out[i])]

\* C13 as it was claimed: a run makes at most 20 x count attempts and returns
\* at most count rows, no two under one name.
C13_AtMostCountRows ==
    /\ gen.attempts <= 20 * gen.count
    /\ gen.pc = "done" => Len(gen.out) <= gen.count /\ NoRepeat(OutKeys)

\* C13, amended: every run of generate_cards and generate_employees ends,
\* after at most 20 x count attempts; generate_employees returns at most count
\* rows and generate_cards at most count rows or, for count 0, its fixed first
\* row alone; no two returned rows are under one name.
C13_Generators ==
    /\ [](/\ gen.attempts <= 20 * gen.count
          /\ gen.pc = "done" =>
                /\ NoRepeat(OutKeys)
                /\ gen.fn = "generate_employees" => Len(gen.out) <= gen.count
                /\ gen.fn = "generate_cards" => Len(gen.out) <= Max(gen.count, 1))
    /\ (gen.pc = "loop" ~> gen.pc = "done")

\* generate_cards(3) given up after 60 attempts with two rows
C13_Witness ==
    /\ gen.pc = "done" /\ gen.fn = "generate_cards"
    /\ gen.count = 3 /\ gen.attempts = 60
    /\ Len(gen.out) = 2

\* the lists init_db is taken to draw from are the lists the runs return
GeneratedAsSeeded ==
    gen.pc = "done" =>
        gen.out \in IF gen.fn = "generate_cards" THEN generate_cards(gen.count)
                    ELSE generate_employees(gen.count)

====
